---- MODULE Spec2Model ----
(***************************************************************************)
(* A state-machine model of the browser-side UI scripts of finbot:         *)
(*   - static/js/toast.js        the Toast registry (show/update/remove)   *)
(*   - static/js/activitylog.js  the paginated activity log                *)
(*   - the settings page         tabs, debounced autosave, server panel    *)
(*   - fetchJson / postJson      the request helpers of the pages          *)
(*   - static/js/first_start.js  the first-start form (test, then add)     *)
(* Strings that the code takes apart (URL hashes, API keys) are sequences  *)
(* of one-character strings; other strings are atoms.                      *)
(***************************************************************************)
EXTENDS Integers, Sequences, FiniteSets, TLC

\* ---------------------------------------------------------------- bounds
\* showToast calls per run
MaxToasts == 2
\* loadPage calls per run of the activity log
MaxLoads == 3
\* the highest page the Next button is pressed towards
MaxPage == 3
\* hashchange events of the settings page queued at once
MaxHashEvents == 1
\* longest API key the server panel is given
MaxKeyLen == 4
\* scheduleSave calls per run of the autosaving settings page
MaxSaves == 2
\* clicks on the clear-key button per run
MaxClears == 1
\* clicks on the test button of the autosaving settings page per run
MaxConnTests == 1
\* calls of the request helpers per run
MaxCalls == 1
\* submit events of the first-start form per run
MaxSubmits == 2
\* clicks on the first-start Test button per run
MaxTests == 2
\* runs of pollProgress per run
MaxPolls == 1

\* ------------------------------------------------------------- JS values
\* A JavaScript value as far as the code inspects it: its typeof and, for a
\* number, its integer value (v is 0 otherwise).
JsNum(n) == [t |-> "number", v |-> n]
JsNaN == [t |-> "nan", v |-> 0]
JsStr == [t |-> "string", v |-> 0]
JsUndef == [t |-> "undefined", v |-> 0]
JsNull == [t |-> "object", v |-> 0]

\* typeof x: NaN is a number
Typeof(x) == IF x.t = "nan" THEN "number" ELSE x.t

VARIABLES
  nextId,        \* toast.js: let nextId
  toasts,        \* toast.js: const toasts = new Map(); id -> [el, timeoutId]
  toastDom,      \* children of #toast-container, in order (element identities)
  toastEls,      \* element identity -> [className, textContent] of live elements
  toastTimers,   \* pending setTimeout handles of toast.js: {[tid, id]}
  nextTimer,     \* the last handle setTimeout returned
  toastCall,     \* the last Toast call and its return value
  issued,        \* every id showToast has returned, in order
  shownTtl       \* id -> the ttl a registered toast was shown with

toastVars == <<nextId, toasts, toastDom, toastEls, toastTimers, nextTimer,
               toastCall, issued, shownTtl>>

VARIABLES
  actOpen,       \* whether the activity-log script has run on a loaded page
  actHash,       \* location.hash: "" or "#..." as a sequence of characters
  hashEvents,    \* hashchange events queued and not yet dispatched
  lastKnownTotalPages,
  nav,           \* disabled of firstBtn, prevBtn, nextBtn, lastBtn
  pageBtns,      \* children of pagesDiv: [page, disabled, active]
  actView,       \* container.hidden, empty.hidden, pageNumEl and metaEl text
  loads,         \* loadPage calls in flight: [lid, stage]
  requested,     \* the page of the request sent last: ...activitylog?page=<n>
  nextLoad,      \* loadPage calls started so far
  actLast,       \* how the loadPage call that finished last ended, and the
                 \* message it gave safeShowToast
  actGoto        \* the last gotoPage call: who called, with what, hash set

actVars == <<actOpen, actHash, hashEvents, lastKnownTotalPages, nav, pageBtns,
             actView, loads, requested, nextLoad, actLast, actGoto>>

VARIABLES
  setOpen,       \* whether the settings script has run on a loaded page
  setHash,       \* location.hash of the settings page
  setHashEvents, \* hashchange events queued and not yet dispatched
  tabs,          \* href -> [active, ariaSelected, tabindex] of each .settings-tab
  panelHidden,   \* id -> hidden of each settings panel
  serverShown,   \* whether the server-added block is shown (noServerDiv.hidden)
  serverHostDisplay,
  serverKeyDisplay,
  shownKey       \* the API key displayServer was last given

setVars == <<setOpen, setHash, setHashEvents, tabs, panelHidden, serverShown,
             serverHostDisplay, serverKeyDisplay, shownKey>>

VARIABLES
  asPhase,       \* "closed", "loading" (loadSettings pending), "bound" (bindAutosave ran)
  saveTimer,     \* let saveTimer: 0 for null, else the last setTimeout handle
  asTimers,      \* pending timers: [tid, payload, remaining, call]
  asNextTimer,   \* the last handle setTimeout returned
  asSince,       \* ms since the last scheduleSave call, capped at SAVE_DELAY
  asCalls,       \* the scheduleSave calls so far: [payload, near], near when
                 \* the call came less than SAVE_DELAY ms after the one before
  asPuts,        \* the PUT /api/settings requests sent: [body, call], call 0
                 \* for a request that no timer sent
  asInflight,    \* requests awaiting their response: [pid, clear]
  isApiMasked,   \* let isApiMasked (the key input disabled, clearBtn shown)
  asToast,       \* the message of the toast shown last
  asTestBtn,     \* disabled and textContent of the test button
  asTest,        \* the click listener of the test button: where it waits
                 \* ("idle" when it does not run) and its originalText
  asTestClicks   \* clicks on the test button so far

asTestVars == <<asTestBtn, asTest, asTestClicks>>

asVars == <<asPhase, saveTimer, asTimers, asNextTimer, asSince, asCalls, asPuts,
            asInflight, isApiMasked, asToast, asTestVars>>

VARIABLES
  hlpCalls,      \* call -> the state of a fetchJson / postJson call: the helper,
                 \* where it waits, the request's method, the response's status,
                 \* what became of the body, and how its promise settled
  hlpNext        \* helper calls made so far

hlpVars == <<hlpCalls, hlpNext>>

VARIABLES
  fsPhase,       \* "closed", "open", "leaving" (location.href was set), "left"
  fsFilled,      \* the inputs among host, port, key whose trimmed value is not empty
  fsDisabled,    \* the controls among addBtn, testBtn and the inputs that are disabled
  fsAddText,     \* addBtn.textContent
  fsTestText,    \* testBtn.textContent
  fsAria,        \* whether addBtn has aria-disabled
  lastTestOk,    \* first_start.js, second script: let lastTestOk
  testingConnection,
  fsToast,       \* the toast shown last: [message, kind]
  fsView,        \* what the page shows: hidden flags and the server display
  fsSubmits,     \* submit listeners in flight: [sid, mod, stage, original]
  fsTests,       \* click listeners awaiting postJson: [tid, mod, original]
  fsTimers,      \* pending timers that enable testBtn
  fsPoll,        \* pending timers that run pollProgress
  fsHref,        \* pending timers that set window.location.href = "/"
  fsDone,        \* the submit listener that ended last: how its save request
                 \* went and the toast it showed
  fsNextSubmit,  \* submit events so far
  fsNextTest,    \* clicks on testBtn so far
  fsPolls,       \* runs of pollProgress so far
  fsRuns         \* runs of pollProgress in flight, per awaited promise

fsVars == <<fsPhase, fsFilled, fsDisabled, fsAddText, fsTestText, fsAria,
            lastTestOk, testingConnection, fsToast, fsView, fsSubmits, fsTests,
            fsTimers, fsPoll, fsHref, fsDone, fsNextSubmit, fsNextTest, fsPolls, fsRuns>>

\* what each script leaves alone: the state of the other pages' scripts
toastOthers == <<actVars, setVars, asVars, hlpVars, fsVars>>
actOthers == <<toastVars, setVars, asVars, hlpVars, fsVars>>
setOthers == <<toastVars, actVars, asVars, hlpVars, fsVars>>
asOthers == <<toastVars, actVars, setVars, hlpVars, fsVars>>
hlpOthers == <<toastVars, actVars, setVars, asVars, fsVars>>
fsOthers == <<toastVars, actVars, setVars, asVars, hlpVars>>

\* ------------------------------------------------------------- toast.js
DEFAULT_TTL == 5000

\* `toast-${nextId}`
FormatToastId(n) == <<"toast-", n>>

\* function showToast(message, type = "success", ttl = 5000): an omitted or
\* undefined argument takes its default.
DefaultArg(x, d) == IF x.t = "undefined" THEN d ELSE x

\* typeof ttl === "number" && ttl > 0   (NaN > 0 is false)
TtlStartsTimerFromZero(ttl) == Typeof(ttl) = "number" /\ ttl.t # "nan" /\ ttl.v >= 0
TtlStartsTimer(ttl) == Typeof(ttl) = "number" /\ ttl.t # "nan" /\ ttl.v > 0

\* String(message): a string is itself, a number its decimal digits, NaN
\* "NaN", undefined "undefined" and null "null"
ToStringMsg(m) ==
  CASE m.t = "string" -> m.v
    [] m.t = "number" -> ToString(m.v)
    [] m.t = "nan" -> "NaN"
    [] m.t = "undefined" -> "undefined"
    [] m.t = "object" -> "null"

RemoveAt(s, x) == SelectSeq(s, LAMBDA y : y # x)

Restrict(f, S) == [x \in S |-> f[x]]

ToastMsgs == {[t |-> "string", v |-> "m1"]}
ToastTypes == {[t |-> "undefined", v |-> ""]}
ToastTtls == {JsNum(3000), JsNum(0), JsNum(-1), JsNaN, JsStr, JsUndef}
UpdateMsgs == {[t |-> "string", v |-> "m2"], [t |-> "undefined", v |-> ""]}
UpdateTypes == {[t |-> "string", v |-> "error"], [t |-> "string", v |-> ""]}
\* ids a caller may pass: every id that can be issued, and one never issued
CallerIds == {FormatToastId(n) : n \in 1..(MaxToasts + 1)}

\* makeId(): nextId += 1; return `toast-${nextId}`
makeIdFromSize == Cardinality(DOMAIN toasts) + 1
makeId == nextId + 1

\* showToast(message, type, ttl)
showToast(message, typeArg, ttlArg) ==
  LET type == DefaultArg(typeArg, [t |-> "string", v |-> "success"])
      ttl == DefaultArg(ttlArg, JsNum(DEFAULT_TTL))
      n == makeId
      id == FormatToastId(n)
      timed == TtlStartsTimer(ttl)
      timeoutId == IF timed THEN nextTimer + 1 ELSE 0
  IN /\ nextId < MaxToasts
     /\ nextId' = n
     /\ toastEls' = [e \in DOMAIN toastEls \cup {n} |->
                       IF e = n THEN [className |-> <<"toast", type.v>>,
                                      textContent |-> ToStringMsg(message)]
                       ELSE toastEls[e]]
     /\ toastDom' = Append(toastDom, n)
     /\ nextTimer' = IF timed THEN nextTimer + 1 ELSE nextTimer
     /\ toastTimers' = IF timed THEN toastTimers \cup {[tid |-> timeoutId, id |-> id]}
                       ELSE toastTimers
     /\ toasts' = [i \in DOMAIN toasts \cup {id} |->
                     IF i = id THEN [el |-> n, timeoutId |-> timeoutId] ELSE toasts[i]]
     /\ toastCall' = [op |-> "show", id |-> id, ret |-> id]
     /\ issued' = Append(issued, id)
     /\ shownTtl' = [i \in DOMAIN shownTtl \cup {id} |->
                        IF i = id THEN ttl ELSE shownTtl[i]]

\* updateToast(id, message, type)
\* if (!entry) return false;
updateToastMissTrue(id) ==
  /\ toastCall' = [op |-> "update", id |-> id, ret |-> TRUE]
  /\ UNCHANGED toastEls
updateToastMiss(id) ==
  /\ toastCall' = [op |-> "update", id |-> id, ret |-> FALSE]
  /\ UNCHANGED toastEls

updateToast(id, message, type) ==
  /\ IF id \notin DOMAIN toasts
     THEN updateToastMiss(id)
     ELSE LET e == toasts[id].el
              txt == IF message.t = "string" THEN message.v
                     ELSE toastEls[e].textContent
              cls == IF type.t = "string" /\ type.v # ""
                     THEN <<"toast", type.v>> ELSE toastEls[e].className
          IN /\ toastEls' = [toastEls EXCEPT ![e] =
                               [className |-> cls, textContent |-> txt]]
             /\ toastCall' = [op |-> "update", id |-> id, ret |-> TRUE]
  /\ UNCHANGED <<nextId, toasts, toastDom, toastTimers, nextTimer, issued, shownTtl>>

\* clearTimeout(entry.timeoutId) inside removeToast, guarded by if (entry.timeoutId)
ClearEntryTimerNot(pending, timeoutId) == pending
ClearEntryTimer(pending, timeoutId) ==
  IF timeoutId # 0 THEN {t \in pending : t.tid # timeoutId} ELSE pending

\* removeToast(id), run with `pending` as the timers still pending, called by `op`
removeToast(id, pending, op) ==
  IF id \notin DOMAIN toasts
  THEN /\ toastCall' = [op |-> op, id |-> id, ret |-> FALSE]
       /\ toastTimers' = pending
       /\ UNCHANGED <<toasts, toastDom, toastEls, shownTtl>>
  ELSE LET entry == toasts[id]
       IN /\ toastTimers' = ClearEntryTimer(pending, entry.timeoutId)
          /\ toastDom' = RemoveAt(toastDom, entry.el)
          /\ toastEls' = Restrict(toastEls, DOMAIN toastEls \ {entry.el})
          /\ toasts' = Restrict(toasts, DOMAIN toasts \ {id})
          /\ shownTtl' = Restrict(shownTtl, DOMAIN shownTtl \ {id})
          /\ toastCall' = [op |-> op, id |-> id, ret |-> TRUE]

ShowToast ==
  /\ \E m \in ToastMsgs, ty \in ToastTypes, ttl \in ToastTtls : showToast(m, ty, ttl)
  /\ UNCHANGED toastOthers

UpdateToast ==
  /\ \E id \in CallerIds, m \in UpdateMsgs, ty \in UpdateTypes : updateToast(id, m, ty)
  /\ UNCHANGED toastOthers

RemoveToast ==
  \E id \in CallerIds :
    /\ removeToast(id, toastTimers, "remove")
    /\ UNCHANGED <<nextId, nextTimer, issued, toastOthers>>

\* the callback of setTimeout(() => removeToast(id), ttl) runs: the handle is
\* no longer pending, then removeToast(id)
ToastTimerFire(tid) ==
  \E t \in toastTimers :
    /\ t.tid = tid
    /\ removeToast(t.id, toastTimers \ {t}, "timer")
    /\ UNCHANGED <<nextId, nextTimer, issued, toastOthers>>

ToastExpire == \E tid \in 1..MaxToasts : ToastTimerFire(tid)

ToastInit ==
  /\ nextId = 0
  /\ toasts = << >>
  /\ toastDom = << >>
  /\ toastEls = << >>
  /\ toastTimers = {}
  /\ nextTimer = 0
  /\ toastCall = [op |-> "none", id |-> FormatToastId(1), ret |-> FALSE]
  /\ issued = << >>
  /\ shownTtl = << >>


\* -------------------------------------------------------- activitylog.js
PER_PAGE == 25
MAX_PAGE_BUTTONS == 7

Max(a, b) == IF a >= b THEN a ELSE b
Min(a, b) == IF a <= b THEN a ELSE b

Digits == <<"0", "1", "2", "3", "4", "5", "6", "7", "8", "9">>
IsDigit(c) == \E d \in 1..10 : Digits[d] = c
DigitVal(c) == (CHOOSE d \in 1..10 : Digits[d] = c) - 1

\* Number("<digits>")
RECURSIVE ParseDec(_)
ParseDec(ds) ==
  IF ds = << >> THEN 0
  ELSE 10 * ParseDec(SubSeq(ds, 1, Len(ds) - 1)) + DigitVal(ds[Len(ds)])

\* `${n}` for an integer n >= 0
RECURSIVE ToDigits(_)
ToDigits(n) ==
  IF n < 10 THEN <<Digits[n + 1]>>
  ELSE Append(ToDigits(n \div 10), Digits[(n % 10) + 1])

PagePrefix == <<"p", "a", "g", "e", "=">>

\* location.hash.match(/page=(\d+)/): the leftmost position of "page=" followed
\* by a digit, and the longest run of digits from there; << >> when none
HashPageDigits(h) ==
  LET starts == {i \in 1..Len(h) :
                   /\ i + 5 <= Len(h)
                   /\ SubSeq(h, i, i + 4) = PagePrefix
                   /\ IsDigit(h[i + 5])}
  IN IF starts = {} THEN << >>
     ELSE LET i == CHOOSE x \in starts : \A y \in starts : x <= y
              stop == CHOOSE j \in (i + 5)..Len(h) :
                        /\ \A k \in (i + 5)..j : IsDigit(h[k])
                        /\ j = Len(h) \/ ~IsDigit(h[j + 1])
          IN SubSeq(h, i + 5, stop)

\* parseHashPage(): match ? Math.max(1, Number(match[1])) : 1
parseHashPageRaw(h) ==
  LET ds == HashPageDigits(h) IN IF ds = << >> THEN 1 ELSE ParseDec(ds)
parseHashPage(h) ==
  LET ds == HashPageDigits(h) IN IF ds = << >> THEN 1 ELSE Max(1, ParseDec(ds))

\* Number(x) || d for a value that is a number or not a number at all
NumberOr(x, d) == IF x.t = "number" /\ x.v # 0 THEN x.v ELSE d

\* Math.max(1, Number(page) || 1)
gotoPageNumber(page) == Max(1, NumberOr(page, 1))

\* location.hash = `page=${...}`: the hash the assignment leaves
gotoPageHash(page) == <<"#">> \o PagePrefix \o ToDigits(gotoPageNumber(page))

\* Math.ceil(a / b) for b # 0
CeilDiv(a, b) ==
  LET n == IF b < 0 THEN -a ELSE a
      d == IF b < 0 THEN -b ELSE b
  IN -((-n) \div d)

\* the part of the page the script writes, as one record
ActDom == [nav |-> nav, btns |-> pageBtns, view |-> actView,
           ltp |-> lastKnownTotalPages]

AllNav(d) == [first |-> d, prev |-> d, next |-> d, last |-> d]

\* setNavigationDisabled(disabled)
setNavigationDisabled(dom, disabled) ==
  [dom EXCEPT !.nav = AllNav(disabled),
              !.btns = [i \in 1..Len(dom.btns) |->
                          [dom.btns[i] EXCEPT !.disabled = disabled]]]

\* renderEmpty() without its last assignment
renderEmptyKeepsTotal(dom) ==
  [dom EXCEPT !.view = [containerHidden |-> TRUE, emptyHidden |-> FALSE,
                        pageNum |-> 1, meta |-> <<"Page", 1>>],
              !.btns = << >>]

\* renderEmpty()
renderEmpty(dom) ==
  [dom EXCEPT !.view = [containerHidden |-> TRUE, emptyHidden |-> FALSE,
                        pageNum |-> 1, meta |-> <<"Page", 1>>],
              !.btns = << >>,
              !.ltp = 1]

\* renderPaginationControls(current, totalPages)
renderPaginationControls(dom, current, totalPages) ==
  LET half == MAX_PAGE_BUTTONS \div 2
      start0 == Max(1, current - half)
      end == Min(totalPages, start0 + MAX_PAGE_BUTTONS - 1)
      start == IF end - start0 + 1 < MAX_PAGE_BUTTONS
               THEN Max(1, end - MAX_PAGE_BUTTONS + 1) ELSE start0
      count == IF end >= start THEN end - start + 1 ELSE 0
  IN [dom EXCEPT
        !.nav = [first |-> current <= 1, prev |-> current <= 1,
                 next |-> current >= totalPages, last |-> current >= totalPages],
        !.btns = [i \in 1..count |->
                    [page |-> start + i - 1, disabled |-> FALSE,
                     active |-> (start + i - 1 = current)]]]

\* the values render(data) derives from the payload
RenderPage(data) == NumberOr(data.page, 1)
RenderTotalPages(data) ==
  Max(1, CeilDiv(NumberOr(data.total, 0), NumberOr(data.per_page, PER_PAGE)))

\* render(data); data.items is the number of items of an array, 0 otherwise
render(dom, data) ==
  IF data.items = 0 THEN renderEmpty(dom)
  ELSE LET page == RenderPage(data)
           totalPages == RenderTotalPages(data)
           shown == [dom EXCEPT
                       !.ltp = totalPages,
                       !.view = [containerHidden |-> FALSE, emptyHidden |-> TRUE,
                                 pageNum |-> page,
                                 meta |-> <<"Page", page, "of", totalPages>>]]
       IN renderPaginationControls(shown, page, totalPages)

\* the assignments an operation on the page record stands for
WriteDom(dom) ==
  /\ nav' = dom.nav
  /\ pageBtns' = dom.btns
  /\ actView' = dom.view
  /\ lastKnownTotalPages' = dom.ltp

\* loadPage(page) up to its first await: setNavigationDisabled(true); fetch(...)
loadPageStart(page) ==
  /\ nextLoad < MaxLoads
  /\ nextLoad' = nextLoad + 1
  /\ loads' = loads \cup {[lid |-> nextLoad + 1, stage |-> "fetch"]}
  /\ requested' = page
  /\ WriteDom(setNavigationDisabled(ActDom, TRUE))

\* loadPage: catch (err) { safeShowToast(...); renderEmpty(); } finally {...}
loadPageFail(l, message) ==
  /\ loads' = loads \ {l}
  /\ WriteDom(setNavigationDisabled(renderEmpty(ActDom), FALSE))
  /\ actLast' = [result |-> "failed", page |-> 1, totalPages |-> 1,
                 report |-> message]

\* loadPage: render(payload.data || {}) and the finally block
loadPageRender(l, data) ==
  /\ loads' = loads \ {l}
  /\ WriteDom(setNavigationDisabled(render(ActDom, data), FALSE))
  /\ actLast' = IF data.items = 0
                THEN [result |-> "empty", page |-> 1, totalPages |-> 1,
                      report |-> "none"]
                ELSE [result |-> "rendered", page |-> RenderPage(data),
                      totalPages |-> RenderTotalPages(data), report |-> "none"]

\* --- inputs
HashSamples ==
  { << >>,
    <<"#", "p", "a", "g", "e", "=", "2">>,
    <<"#", "p", "a", "g", "e", "=", "0">>,
    <<"#", "x", "p", "a", "g", "e", "=", "0", "2", "y">>,
    <<"#", "p", "a", "g", "e", "=", "-", "2">>,
    <<"#", "p", "a", "g", "e", "=", "&", "p", "a", "g", "e", "=", "3">> }

\* payload.data as the server may send it
Data(n, page, perPage, total) ==
  [items |-> n, page |-> page, per_page |-> perPage, total |-> total]
DataSamples ==
  { Data(0, JsNum(1), JsNum(25), JsNum(0)),
    Data(2, JsUndef, JsUndef, JsUndef),
    Data(2, JsNum(1), JsNum(25), JsNum(30)),
    Data(2, JsNum(2), JsNum(10), JsNum(30)),
    Data(2, JsNum(9), JsUndef, JsNum(200)) }

\* --- operations
\* the page is opened at some hash and the script runs: loadPage(parseHashPage())
ActOpen ==
  \E h \in HashSamples, ch \in BOOLEAN, eh \in BOOLEAN :
    /\ ~actOpen
    /\ actOpen' = TRUE
    /\ actHash' = h
    /\ loads' = {[lid |-> 1, stage |-> "fetch"]}
    /\ requested' = parseHashPage(h)
    /\ nextLoad' = 1
    /\ WriteDom(setNavigationDisabled(
          [ActDom EXCEPT !.view.containerHidden = ch, !.view.emptyHidden = eh],
          TRUE))
    /\ UNCHANGED <<actOthers, hashEvents, actLast, actGoto>>

\* the user edits the URL or walks the history: the hash changes
HashEdit ==
  \E h \in HashSamples :
    /\ actOpen
    /\ h # actHash
    /\ hashEvents + nextLoad < MaxLoads
    /\ actHash' = h
    /\ hashEvents' = hashEvents + 1
    /\ UNCHANGED <<actOthers, actOpen, lastKnownTotalPages, nav, pageBtns, actView, loads, requested,
                   nextLoad, actLast, actGoto>>

\* gotoPage(page), called by the click handler of `who`
gotoPage(who, page) ==
  LET h == gotoPageHash(page)
  IN /\ actOpen
     /\ hashEvents + nextLoad < MaxLoads
     /\ actHash' = h
     /\ hashEvents' = IF h # actHash THEN hashEvents + 1 ELSE hashEvents
     /\ actGoto' = [who |-> who, from |-> parseHashPage(actHash),
                    arg |-> page, hash |-> h]
     /\ UNCHANGED <<actOthers, actOpen, lastKnownTotalPages, nav, pageBtns, actView, loads, requested,
                    nextLoad, actLast>>

ClickFirst == ~nav.first /\ gotoPage("first", JsNum(1))
ClickPrev == ~nav.prev /\ gotoPage("prev", JsNum(parseHashPage(actHash) - 1))
ClickNext ==
  /\ ~nav.next
  /\ parseHashPage(actHash) < MaxPage
  /\ gotoPage("next", JsNum(parseHashPage(actHash) + 1))
ClickLast == ~nav.last /\ gotoPage("last", JsNum(lastKnownTotalPages))
ClickPage ==
  \E i \in 1..Len(pageBtns) :
    /\ ~pageBtns[i].disabled
    /\ gotoPage("page", JsNum(pageBtns[i].page))

\* window "hashchange" listener: loadPage(parseHashPage())
HashChange ==
  /\ hashEvents > 0
  /\ hashEvents' = hashEvents - 1
  /\ loadPageStart(parseHashPage(actHash))
  /\ UNCHANGED <<actOthers, actOpen, actHash, actLast, actGoto>>

\* fetch settles: rejected, or a response that is not ok, or an ok response
FetchRejected ==
  \E l \in loads :
    /\ l.stage = "fetch"
    /\ loadPageFail(l, "fetch rejected")
    /\ UNCHANGED <<actOthers, actOpen, actHash, hashEvents, requested, nextLoad,
                   actGoto>>
FetchNotOk ==
  \E l \in loads :
    /\ l.stage = "fetch"
    /\ loadPageFail(l, "Network error")
    /\ UNCHANGED <<actOthers, actOpen, actHash, hashEvents, requested, nextLoad,
                   actGoto>>
FetchOk ==
  \E l \in loads :
    /\ l.stage = "fetch"
    /\ loads' = (loads \ {l}) \cup {[l EXCEPT !.stage = "json"]}
    /\ UNCHANGED <<actOthers, actOpen, actHash, hashEvents, lastKnownTotalPages, nav,
                   pageBtns, actView, requested, nextLoad, actLast, actGoto>>

\* resp.json() settles: a body that is not JSON, a payload without ok (with or
\* without a message), or an ok payload with its data
JsonRejected ==
  \E l \in loads :
    /\ l.stage = "json"
    /\ loadPageFail(l, "json rejected")
    /\ UNCHANGED <<actOthers, actOpen, actHash, hashEvents, requested, nextLoad,
                   actGoto>>
JsonNotOk ==
  \E l \in loads, m \in {"API error", "payload.message"} :
    /\ l.stage = "json"
    /\ loadPageFail(l, m)
    /\ UNCHANGED <<actOthers, actOpen, actHash, hashEvents, requested, nextLoad,
                   actGoto>>
JsonOk ==
  \E l \in loads, data \in DataSamples :
    /\ l.stage = "json"
    /\ loadPageRender(l, data)
    /\ UNCHANGED <<actOthers, actOpen, actHash, hashEvents, requested, nextLoad,
                   actGoto>>

\* resp.json() resolves with an ok payload whose data.items holds a null:
\* render throws in its loop at it.username_denorm, before it assigns
\* anything the model keeps
RenderThrows ==
  \E l \in loads :
    /\ l.stage = "json"
    /\ loadPageFail(l, "TypeError")
    /\ UNCHANGED <<actOthers, actOpen, actHash, hashEvents, requested, nextLoad,
                   actGoto>>

ActInit ==
  /\ actOpen = FALSE
  /\ actHash = << >>
  /\ hashEvents = 0
  /\ lastKnownTotalPages = 1
  /\ nav = AllNav(FALSE)
  /\ pageBtns = << >>
  /\ actView = [containerHidden |-> FALSE, emptyHidden |-> TRUE,
                pageNum |-> 0, meta |-> << >>]
  /\ loads = {}
  /\ requested = 1
  /\ nextLoad = 0
  /\ actLast = [result |-> "none", page |-> 1, totalPages |-> 1, report |-> "none"]
  /\ actGoto = [who |-> "none", from |-> 1, arg |-> JsNum(1), hash |-> << >>]

ActNext ==
  \/ ActOpen \/ HashEdit \/ HashChange
  \/ ClickFirst \/ ClickPrev \/ ClickNext \/ ClickLast \/ ClickPage
  \/ FetchRejected \/ FetchNotOk \/ FetchOk
  \/ JsonRejected \/ JsonNotOk \/ JsonOk \/ RenderThrows


\* ------------------------------------------------------------ settings.js
S_general == <<"g", "e", "n", "e", "r", "a", "l">>
S_jellyfin == <<"j", "e", "l", "l", "y", "f", "i", "n">>
S_libraries == <<"l", "i", "b", "r", "a", "r", "i", "e", "s">>
S_tasklog == <<"t", "a", "s", "k", "l", "o", "g">>

\* the ids of the .settings-content panels of the page, and the hrefs of its
\* .settings-tab links: one tab per panel
PanelIds == {S_general, S_jellyfin, S_libraries, S_tasklog}
TabHrefs == {<<"#">> \o id : id \in PanelIds}

\* s.slice(1)
Slice1(s) == IF s = << >> THEN << >> ELSE Tail(s)

\* String(isActive), isActive ? '0' : '-1'
TabAttrs(isActive) ==
  [active |-> isActive,
   ariaSelected |-> IF isActive THEN "true" ELSE "false",
   tabindex |-> IF isActive THEN "0" ELSE "-1"]

\* activate(id): the tabs and panels it leaves
activateTabs(id) == [href \in TabHrefs |-> TabAttrs(href = <<"#">> \o id)]
activatePanels(id) == [p \in PanelIds |-> p # id]

\* fromHash(): the id it activates
fromHashIdAsIs(hash) == Slice1(IF hash = << >> THEN <<"#">> \o S_general ELSE hash)
fromHashId(hash) ==
  LET id == Slice1(IF hash = << >> THEN <<"#">> \o S_general ELSE hash)
      known == \E p \in PanelIds : p = id
  IN IF known THEN id ELSE S_general

SetHashSamples ==
  { << >>,
    <<"#">> \o S_general,
    <<"#">> \o S_jellyfin,
    <<"#">> \o S_libraries,
    <<"#">> \o S_tasklog,
    <<"#", "G", "e", "n", "e", "r", "a", "l">>,
    <<"#", "t", "a", "s", "k", "l", "o", "g", "2">> }

\* the page is opened at some hash and the script runs fromHash()
SetOpen ==
  \E h \in SetHashSamples :
    /\ ~setOpen
    /\ setOpen' = TRUE
    /\ setHash' = h
    /\ tabs' = activateTabs(fromHashId(h))
    /\ panelHidden' = activatePanels(fromHashId(h))
    /\ UNCHANGED <<setOthers, setHashEvents, serverShown, serverHostDisplay,
                   serverKeyDisplay, shownKey>>

\* click on a tab: history.replaceState(null, '', `#${id}`); activate(id)
TabClick ==
  \E href \in TabHrefs :
    LET id == Slice1(href)
    IN /\ setOpen
       /\ setHash' = <<"#">> \o id
       /\ tabs' = activateTabs(id)
       /\ panelHidden' = activatePanels(id)
       /\ UNCHANGED <<setOthers, setOpen, setHashEvents, serverShown,
                      serverHostDisplay, serverKeyDisplay, shownKey>>

\* the user edits the URL or walks the history: the hash changes
SetHashEdit ==
  \E h \in SetHashSamples :
    /\ setOpen
    /\ h # setHash
    /\ setHashEvents < MaxHashEvents
    /\ setHash' = h
    /\ setHashEvents' = setHashEvents + 1
    /\ UNCHANGED <<setOthers, setOpen, tabs, panelHidden, serverShown,
                   serverHostDisplay, serverKeyDisplay, shownKey>>

\* window "hashchange" listener: fromHash
SetHashChange ==
  /\ setHashEvents > 0
  /\ setHashEvents' = setHashEvents - 1
  /\ tabs' = activateTabs(fromHashId(setHash))
  /\ panelHidden' = activatePanels(fromHashId(setHash))
  /\ UNCHANGED <<setOthers, setOpen, setHash, serverShown, serverHostDisplay,
                 serverKeyDisplay, shownKey>>

\* --- the server panel
ApiKeyLabel == <<"A", "P", "I", " ", "K", "e", "y", ":", " ">>
Stars(n) == [i \in 1..n |-> "*"]
STARS_AFTER_KEY == 26
STARS_NO_KEY == 29

\* apiKey.substring(0, n)
Substring0(k, n) == SubSeq(k, 1, Min(n, Len(k)))

\* displayServer: the text written to serverKeyDisplay; an empty key is falsy
redactKeyFour(apiKey) ==
  IF apiKey # << >>
  THEN ApiKeyLabel \o Substring0(apiKey, 4) \o Stars(STARS_AFTER_KEY)
  ELSE ApiKeyLabel \o Stars(STARS_NO_KEY)
redactKey(apiKey) ==
  IF apiKey # << >>
  THEN ApiKeyLabel \o Substring0(apiKey, 3) \o Stars(STARS_AFTER_KEY)
  ELSE ApiKeyLabel \o Stars(STARS_NO_KEY)

KeyChars == {"a", "b"}
RECURSIVE KeysOfLen(_)
KeysOfLen(n) ==
  IF n = 0 THEN {<< >>}
  ELSE {Append(k, c) : k \in KeysOfLen(n - 1), c \in KeyChars}
KeySamples == UNION {KeysOfLen(n) : n \in 0..MaxKeyLen}

\* checkServerState() once /api/settings has answered with data: hasServer is
\* !!(jf_host && jf_port && jf_api_key); host and port are set here
CheckServerState ==
  \E key \in KeySamples, host \in {"", "jf.local"} :
    LET hasServer == host # "" /\ key # << >>
    IN /\ setOpen
       /\ serverShown' = hasServer
       /\ IF hasServer
          THEN /\ serverHostDisplay' = <<host, ":", "8096">>
               /\ serverKeyDisplay' = redactKey(key)
               /\ shownKey' = key
          ELSE UNCHANGED <<serverHostDisplay, serverKeyDisplay, shownKey>>
       /\ UNCHANGED <<setOthers, setOpen, setHash, setHashEvents, tabs,
                      panelHidden>>

SetInit ==
  /\ setOpen = FALSE
  /\ setHash = << >>
  /\ setHashEvents = 0
  /\ tabs = [href \in TabHrefs |-> TabAttrs(FALSE)]
  /\ panelHidden = [p \in PanelIds |-> TRUE]
  /\ serverShown = FALSE
  /\ serverHostDisplay = << >>
  /\ serverKeyDisplay = << >>
  /\ shownKey = << >>

SetNext == SetOpen \/ TabClick \/ SetHashEdit \/ SetHashChange \/ CheckServerState


\* ------------------------------------------- settings autosave (part_000)
SAVE_DELAY == 200
\* time advances in steps of half the debounce delay
TickMs == SAVE_DELAY \div 2

API_MASK == "********************************"

\* the payloads the blur and change listeners build from the inputs
Payload(f, v) == [field |-> f, value |-> v]
FieldPayloads == {Payload("hour_format", "12"), Payload("language", "de")}
KeyPayloads == {Payload("jf_api_key", "k")}
NoPayload == Payload("", "")

\* saveSettings: a jf_api_key equal to the mask is deleted from the payload
PutBody(payload) ==
  IF payload.field = "jf_api_key" /\ payload.value = API_MASK
  THEN NoPayload ELSE payload

\* if (saveTimer) clearTimeout(saveTimer)
ClearSaveTimerNot(pending) == pending
ClearSaveTimer(pending) ==
  IF saveTimer # 0 THEN {t \in pending : t.tid # saveTimer} ELSE pending

\* scheduleSave(payload)
scheduleSave(payload) ==
  /\ asPhase = "bound"
  /\ Len(asCalls) < MaxSaves
  /\ asNextTimer' = asNextTimer + 1
  /\ saveTimer' = asNextTimer + 1
  /\ asTimers' = ClearSaveTimer(asTimers) \cup
                   {[tid |-> asNextTimer + 1, payload |-> payload,
                     remaining |-> SAVE_DELAY, call |-> Len(asCalls) + 1]}
  /\ asCalls' = Append(asCalls, [payload |-> payload,
                                 near |-> asCalls # << >> /\ asSince < SAVE_DELAY])
  /\ asSince' = 0
  /\ UNCHANGED <<asOthers, asTestVars, asPhase, asPuts, asInflight, isApiMasked, asToast>>

\* saveSettings(payload) up to its first await: fetch('/api/settings', PUT)
sendPut(payload, call, clear) ==
  /\ asPuts' = Append(asPuts, [body |-> PutBody(payload), call |-> call])
  /\ asInflight' = asInflight \cup {[pid |-> Len(asPuts) + 1, clear |-> clear]}

\* the page is opened: loadSettings() starts its fetch
AsOpen ==
  /\ asPhase = "closed"
  /\ asPhase' = "loading"
  /\ UNCHANGED <<asOthers, asTestVars, saveTimer, asTimers, asNextTimer, asSince, asCalls,
                 asPuts, asInflight, isApiMasked, asToast>>

\* loadSettings() settles (a stored key masks the input), then bindAutosave
AsLoaded ==
  \E outcome \in {"key", "nokey", "failed"} :
    /\ asPhase = "loading"
    /\ asPhase' = "bound"
    /\ isApiMasked' = IF outcome = "failed" THEN isApiMasked ELSE outcome = "key"
    /\ asToast' = IF outcome = "failed" THEN "Failed to load settings" ELSE asToast
    /\ UNCHANGED <<asOthers, asTestVars, saveTimer, asTimers, asNextTimer, asSince, asCalls,
                   asPuts, asInflight>>

\* blur or change on hour_format or language; blur on host or port
FieldBlur == \E payload \in FieldPayloads : scheduleSave(payload)

\* blur on the key input: ignored while masked or disabled
KeyBlur ==
  \E payload \in KeyPayloads :
    /\ ~isApiMasked
    /\ payload.value # "" /\ payload.value # API_MASK
    /\ scheduleSave(payload)

\* time passes
Tick ==
  /\ asPhase = "bound"
  /\ asSince' = Min(SAVE_DELAY, asSince + TickMs)
  /\ asTimers' = {[t EXCEPT !.remaining = Max(0, t.remaining - TickMs)] : t \in asTimers}
  /\ UNCHANGED <<asOthers, asTestVars, asPhase, saveTimer, asNextTimer, asCalls, asPuts,
                 asInflight, isApiMasked, asToast>>

\* the callback of setTimeout(() => saveSettings(payload), 200) runs
SaveTimerFire(tid) ==
  \E t \in asTimers :
    /\ t.tid = tid
    /\ t.remaining = 0
    /\ asTimers' = asTimers \ {t}
    /\ sendPut(t.payload, t.call, FALSE)
    /\ UNCHANGED <<asOthers, asTestVars, asPhase, saveTimer, asNextTimer, asSince, asCalls,
                   isApiMasked, asToast>>

SaveTimerExpire == \E tid \in 1..MaxSaves : SaveTimerFire(tid)

\* click on the clear button: await saveSettings({ jf_api_key: '' })
ClearClick ==
  /\ asPhase = "bound"
  /\ isApiMasked
  /\ Cardinality({i \in 1..Len(asPuts) : asPuts[i].call = 0}) < MaxClears
  /\ sendPut(Payload("jf_api_key", ""), 0, TRUE)
  /\ UNCHANGED <<asOthers, asTestVars, asPhase, saveTimer, asTimers, asNextTimer, asSince,
                 asCalls, isApiMasked, asToast>>

\* a PUT settles and saveSettings runs on; updated.jf_api_key is absent, a
\* stored key or empty; the clear handler then shows its own toast and
\* unmasks the input
PutSettled ==
  \E r \in asInflight, outcome \in {"absent", "key", "nokey", "failed"} :
    /\ asInflight' = asInflight \ {r}
    /\ isApiMasked' = IF r.clear THEN FALSE
                      ELSE IF outcome \in {"absent", "failed"} THEN isApiMasked
                      ELSE outcome = "key"
    /\ asToast' = IF r.clear THEN "API key cleared"
                  ELSE IF outcome = "failed" THEN "Failed to save settings"
                  ELSE "Settings saved"
    /\ UNCHANGED <<asOthers, asTestVars, asPhase, saveTimer, asTimers, asNextTimer, asSince,
                   asCalls, asPuts>>

\* what /api/test-connection answers: ok, message ("" when absent) and status
TestAnswer(ok, message, status) ==
  [ok |-> ok, message |-> message, status |-> status]
TestAnswers ==
  { TestAnswer(TRUE, "", JsNum(200)),
    TestAnswer(FALSE, "bad key", JsUndef),
    TestAnswer(FALSE, "", JsNum(401)) }

\* typeof data.status === 'number' ? ` (status: ${data.status})` : ''
statusInfo(data) ==
  IF Typeof(data.status) = "number"
  THEN " (status: " \o (IF data.status.t = "nan" THEN "NaN"
                        ELSE ToString(data.status.v)) \o ")"
  ELSE ""

\* (data.message || (data.ok ? 'Connection successful.' : 'Connection failed.'))
\*   + statusInfo
testMessage(data) ==
  (IF data.message # "" THEN data.message
   ELSE IF data.ok THEN "Connection successful." ELSE "Connection failed.")
  \o statusInfo(data)

\* the finally block of the test button's click listener
testRestored == [disabled |-> FALSE, text |-> asTest.originalText]

\* click on the test button, up to await fetch('/api/test-connection')
AsTestClick ==
  /\ asPhase # "closed"
  /\ ~asTestBtn.disabled
  /\ asTestClicks < MaxConnTests
  /\ asTestClicks' = asTestClicks + 1
  /\ asTest' = [stage |-> "fetch", originalText |-> asTestBtn.text]
  /\ asTestBtn' = [disabled |-> TRUE, text |-> "Testing..."]
  /\ UNCHANGED <<asOthers, asPhase, saveTimer, asTimers, asNextTimer, asSince,
                 asCalls, asPuts, asInflight, isApiMasked, asToast>>

\* the fetch rejects: the catch block, then the finally block
AsTestFetchRejected ==
  /\ asTest.stage = "fetch"
  /\ asToast' = "Failed to test connection"
  /\ asTestBtn' = testRestored
  /\ asTest' = [asTest EXCEPT !.stage = "idle"]
  /\ UNCHANGED <<asOthers, asPhase, saveTimer, asTimers, asNextTimer, asSince,
                 asCalls, asPuts, asInflight, isApiMasked, asTestClicks>>

\* the fetch resolves: the listener awaits resp.json()
AsTestResponded ==
  /\ asTest.stage = "fetch"
  /\ asTest' = [asTest EXCEPT !.stage = "json"]
  /\ UNCHANGED <<asOthers, asPhase, saveTimer, asTimers, asNextTimer, asSince,
                 asCalls, asPuts, asInflight, isApiMasked, asToast, asTestBtn,
                 asTestClicks>>

\* resp.json() rejects, or resolves with null so that data.ok throws: the
\* catch block, then the finally block
AsTestJsonRejected ==
  /\ asTest.stage = "json"
  /\ asToast' = "Failed to test connection"
  /\ asTestBtn' = testRestored
  /\ asTest' = [asTest EXCEPT !.stage = "idle"]
  /\ UNCHANGED <<asOthers, asPhase, saveTimer, asTimers, asNextTimer, asSince,
                 asCalls, asPuts, asInflight, isApiMasked, asTestClicks>>

\* resp.json() resolves with the answer: its toast, then the finally block
AsTestAnswered ==
  \E data \in TestAnswers :
    /\ asTest.stage = "json"
    /\ asToast' = testMessage(data)
    /\ asTestBtn' = testRestored
    /\ asTest' = [asTest EXCEPT !.stage = "idle"]
    /\ UNCHANGED <<asOthers, asPhase, saveTimer, asTimers, asNextTimer, asSince,
                   asCalls, asPuts, asInflight, isApiMasked, asTestClicks>>

AsInit ==
  /\ asPhase = "closed"
  /\ saveTimer = 0
  /\ asTimers = {}
  /\ asNextTimer = 0
  /\ asSince = 0
  /\ asCalls = << >>
  /\ asPuts = << >>
  /\ asInflight = {}
  /\ isApiMasked = FALSE
  /\ asToast = ""
  /\ asTestBtn = [disabled |-> FALSE, text |-> "Test Connection"]
  /\ asTest = [stage |-> "idle", originalText |-> ""]
  /\ asTestClicks = 0

\* the first script of the page: settings form, autosave, clear button
AsNext ==
  \/ AsOpen \/ AsLoaded \/ FieldBlur \/ KeyBlur \/ Tick \/ SaveTimerExpire
  \/ ClearClick \/ PutSettled

\* the second script of the page: the test button
AsTestNext ==
  \/ AsTestClick \/ AsTestFetchRejected \/ AsTestResponded
  \/ AsTestJsonRejected \/ AsTestAnswered

\* ------------------------------ request helpers (part_003, settings.js)
\* A value the helpers handle, as far as they inspect it: t is what kind of
\* value it is ("object", "array", "null", "number", "string", "undefined"),
\* truthy its truthiness, has the properties it has among ok, data, message
\* and status, and ok, data, message, status what those properties hold
\* (data is the kind of the value held, message "" when absent).
Val(t, truthy, has, ok, data, message, status) ==
  [t |-> t, truthy |-> truthy, has |-> has, ok |-> ok, data |-> data,
   message |-> message, status |-> status]

NoVal == Val("undefined", FALSE, {}, "none", "none", "", 0)

\* {}
EmptyObject == Val("object", TRUE, {}, "none", "none", "", 0)

\* an Error with the given message
ErrorVal(message) == Val("object", TRUE, {"message"}, "none", "none", message, 0)

\* typeof data
TypeofVal(data) == IF data.t \in {"object", "array", "null"} THEN "object" ELSE data.t

\* x?.message || fallback
MessageOr(x, fallback) ==
  IF x.t \notin {"null", "undefined"} /\ "message" \in x.has /\ x.message # ""
  THEN x.message ELSE fallback


\* { ok: false, status, message, data: null }
Failure(status, message) ==
  Val("object", TRUE, {"ok", "status", "message", "data"}, "false", "null",
      message, status)

\* { ok: true, status: resp.status, data }
Wrapped(status, data) ==
  Val("object", TRUE, {"ok", "status", "data"}, "true", data.t, "", status)

\* the catch block of every helper
HelperCatch(err) == Failure(0, MessageOr(err, "Network error"))

\* resp.ok
RespOk(status) == status >= 200 /\ status <= 299

\* jf_helpers.fetchJson / postJson once resp.json() has settled with data
\* (data is {} when the body was not JSON)
jfHelperFinish(status, data) ==
  IF ~RespOk(status) THEN Failure(status, MessageOr(data, "HTTP error"))
  ELSE IF data.truthy /\ TypeofVal(data) = "object"
          /\ ("ok" \in data.has \/ "data" \in data.has)
       THEN data
       ELSE Wrapped(status, data)

\* fetchJson / postJson of the libraries panel once resp.json() has resolved
settingsHelperFinish(status, data) ==
  IF ~RespOk(status) THEN Failure(status, "HTTP error") ELSE data

JfHelpers == {"jf_helpers.fetchJson", "jf_helpers.postJson"}
SettingsHelpers == {"settings.fetchJson", "settings.postJson"}
Helpers == JfHelpers \cup SettingsHelpers

\* what a caller passes: opts of jf_helpers.fetchJson (absent, {}, an object
\* with a method, or null), the body of a postJson (plain, or circular so
\* that JSON.stringify throws) and the method of jf_helpers.postJson
HelperArgs(helper) ==
  CASE helper = "jf_helpers.fetchJson" ->
         {[opts |-> o, body |-> "none", method |-> "undefined"] :
            o \in {"undefined", "empty", "DELETE", "null"}}
    [] helper = "jf_helpers.postJson" ->
         {[opts |-> "none", body |-> b, method |-> m] :
            b \in {"plain", "circular"}, m \in {"undefined", "PUT"}}
    [] helper = "settings.fetchJson" ->
         {[opts |-> "none", body |-> "none", method |-> "undefined"]}
    [] helper = "settings.postJson" ->
         {[opts |-> "none", body |-> b, method |-> "undefined"] :
            b \in {"plain", "circular"}}

\* whether the code before the fetch throws: opts.method of null, or
\* JSON.stringify of a circular body
HelperThrows(args) == args.opts = "null" \/ args.body = "circular"

\* the method of the request the helper sends
HelperMethod(helper, args) ==
  CASE helper = "jf_helpers.fetchJson" ->
         IF args.opts \in {"undefined", "empty"} THEN "GET" ELSE args.opts
    [] helper = "jf_helpers.postJson" ->
         IF args.method = "undefined" THEN "POST" ELSE args.method
    [] helper = "settings.fetchJson" -> "GET"
    [] helper = "settings.postJson" -> "POST"

\* the status of a response
StatusSamples == {200, 404, 500}

\* the message of the error a rejected fetch or resp.json() carries
ErrorMessages == {"", "Failed to fetch"}

\* what the body of a response parses to
BodySamples ==
  { Val("null", FALSE, {}, "none", "none", "", 0),
    Val("number", TRUE, {}, "none", "none", "", 0),
    Val("string", TRUE, {}, "none", "none", "", 0),
    Val("array", TRUE, {}, "none", "none", "", 0),
    EmptyObject,
    Val("object", TRUE, {"ok", "data"}, "true", "array", "", 0),
    Val("object", TRUE, {"ok", "message"}, "false", "none", "denied", 0),
    Val("object", TRUE, {"data"}, "none", "null", "", 0),
    Val("object", TRUE, {"message"}, "none", "none", "denied", 0) }

Pending(helper, method) ==
  [helper |-> helper, stage |-> "fetch", method |-> method, threw |-> FALSE,
   status |-> 0, body |-> "none", settle |-> "pending", value |-> NoVal]

\* the promise of call c is resolved with value
Resolve(c, value) ==
  [c EXCEPT !.stage = "settled", !.settle = "resolved", !.value = value]

\* fetchJson(path[, opts]) / postJson(path, body[, method]) up to the fetch
HelperCall ==
  /\ hlpNext < MaxCalls
  /\ \E helper \in Helpers : \E args \in HelperArgs(helper) :
       LET cid == hlpNext + 1
           c == Pending(helper, HelperMethod(helper, args))
       IN /\ hlpNext' = cid
          /\ hlpCalls' =
               (cid :> (IF HelperThrows(args)
                        THEN Resolve([c EXCEPT !.threw = TRUE],
                                     HelperCatch(ErrorVal("TypeError")))
                        ELSE c)) @@ hlpCalls
  /\ UNCHANGED hlpOthers

\* the fetch rejects: a network failure
HelperFetchRejected ==
  /\ \E cid \in DOMAIN hlpCalls : \E m \in ErrorMessages :
       /\ hlpCalls[cid].stage = "fetch"
       /\ hlpCalls' = [hlpCalls EXCEPT ![cid] =
            Resolve([@ EXCEPT !.body = "no response"], HelperCatch(ErrorVal(m)))]
  /\ UNCHANGED <<hlpNext, hlpOthers>>

\* the fetch resolves with a response; the helper awaits resp.json()
HelperFetchResolved ==
  /\ \E cid \in DOMAIN hlpCalls : \E status \in StatusSamples :
       /\ hlpCalls[cid].stage = "fetch"
       /\ hlpCalls' = [hlpCalls EXCEPT ![cid] =
            [@ EXCEPT !.stage = "json", !.status = status]]
  /\ UNCHANGED <<hlpNext, hlpOthers>>

\* resp.json() rejects: the body is not JSON
HelperJsonRejected ==
  /\ \E cid \in DOMAIN hlpCalls :
       LET c == [hlpCalls[cid] EXCEPT !.body = "not json"]
       IN /\ c.stage = "json"
          /\ hlpCalls' = [hlpCalls EXCEPT ![cid] =
               IF c.helper \in JfHelpers
               THEN Resolve(c, jfHelperFinish(c.status, EmptyObject))
               ELSE Resolve(c, HelperCatch(ErrorVal("Unexpected token")))]
  /\ UNCHANGED <<hlpNext, hlpOthers>>

\* resp.json() resolves with the parsed body
HelperJsonResolved ==
  /\ \E cid \in DOMAIN hlpCalls : \E data \in BodySamples :
       LET c == [hlpCalls[cid] EXCEPT !.body = "json"]
       IN /\ c.stage = "json"
          /\ hlpCalls' = [hlpCalls EXCEPT ![cid] =
               IF c.helper \in JfHelpers
               THEN Resolve(c, jfHelperFinish(c.status, data))
               ELSE Resolve(c, settingsHelperFinish(c.status, data))]
  /\ UNCHANGED <<hlpNext, hlpOthers>>

HlpInit ==
  /\ hlpCalls = << >>
  /\ hlpNext = 0

HlpNext ==
  \/ HelperCall \/ HelperFetchRejected \/ HelperFetchResolved
  \/ HelperJsonRejected \/ HelperJsonResolved

\* --------------------------------------------------------- first_start.js
\* The file holds two scripts, run one after the other on the same page; each
\* binds its own listeners to the same form, buttons and inputs, so an event
\* runs the listener of the first script and then that of the second.
FsFields == {"host", "port", "key"}
FsInputOf(f) == CASE f = "host" -> "hostInput" [] f = "port" -> "portInput"
                  [] f = "key" -> "keyInput"
FsInputs == {FsInputOf(f) : f \in FsFields}
FsControls == {"addBtn", "testBtn"} \cup FsInputs

ADD_LABEL == "Add"
SAVING_LABEL == "Saving..."

NoToast == [message |-> "none", kind |-> "none"]
NoSubmitDone == [sid |-> 0, mod |-> 0, outcome |-> "none", toast |-> NoToast]

\* the page's state the listeners read and write
FsDom ==
  [phase |-> fsPhase, disabled |-> fsDisabled, addText |-> fsAddText,
   testText |-> fsTestText, aria |-> fsAria, lastTestOk |-> lastTestOk,
   testing |-> testingConnection, toast |-> fsToast, view |-> fsView,
   submits |-> fsSubmits, tests |-> fsTests, timers |-> fsTimers,
   poll |-> fsPoll, href |-> fsHref, done |-> fsDone]

WriteFs(st) ==
  /\ fsPhase' = st.phase
  /\ fsDisabled' = st.disabled
  /\ fsAddText' = st.addText
  /\ fsTestText' = st.testText
  /\ fsAria' = st.aria
  /\ lastTestOk' = st.lastTestOk
  /\ testingConnection' = st.testing
  /\ fsToast' = st.toast
  /\ fsView' = st.view
  /\ fsSubmits' = st.submits
  /\ fsTests' = st.tests
  /\ fsTimers' = st.timers
  /\ fsPoll' = st.poll
  /\ fsHref' = st.href
  /\ fsDone' = st.done

\* showToast(message, kind)
fsShowToast(st, message, kind) ==
  [st EXCEPT !.toast = [message |-> message, kind |-> kind]]

\* !host || !port || !apiKey
FsMissing(filled) == filled # FsFields

\* first script, testBtn click listener up to await postJson(...)
testClick1(st, filled, k) ==
  IF FsMissing(filled) THEN fsShowToast(st, "Please fill in host, port and API key", "error")
  ELSE [st EXCEPT !.disabled = @ \cup {"testBtn"},
                  !.testText = "Testing...",
                  !.tests = @ \cup {[tid |-> k, mod |-> 1, original |-> st.testText]}]

\* second script, testBtn click listener up to await postJson(...)
testClick2(st, filled, k) ==
  IF FsMissing(filled) THEN fsShowToast(st, "Please fill in host, port and API key", "error")
  ELSE IF st.testing THEN st
  ELSE [st EXCEPT !.testing = TRUE,
                  !.disabled = @ \cup {"testBtn", "addBtn"},
                  !.aria = TRUE,
                  !.testText = "Testing...",
                  !.tests = @ \cup {[tid |-> k, mod |-> 2, original |-> st.testText]}]

\* what postJson resolved with: an object with a truthy ok, the object of its
\* catch block, or null
TestResults == {"ok", "Network error", "null"}

\* result?.message || `Failed (status: ${result?.status ?? "n/a"})`
TestFailedMessage(res) ==
  IF res = "null" THEN "Failed (status: n/a)" ELSE res

\* first script, testBtn click listener after the await
testDone1(st, t, res) ==
  LET shown == IF res = "ok" THEN fsShowToast(st, "Connection successful", "success")
               ELSE fsShowToast(st, TestFailedMessage(res), "error")
  IN [shown EXCEPT !.tests = @ \ {t},
                   !.testText = t.original,
                   !.timers = @ + 1]

\* second script, testBtn click listener after the await
testDone2(st, t, res) ==
  LET ran == [st EXCEPT !.testing = FALSE, !.tests = @ \ {t}]
      told == IF res = "ok"
              THEN [fsShowToast(ran, "Connection successful", "success")
                      EXCEPT !.lastTestOk = TRUE,
                             !.disabled = @ \ {"addBtn"},
                             !.aria = FALSE]
              ELSE [fsShowToast(ran, TestFailedMessage(res), "error")
                      EXCEPT !.lastTestOk = FALSE,
                             !.disabled = @ \cup {"addBtn"},
                             !.aria = TRUE]
  IN [told EXCEPT !.testText = t.original, !.timers = @ + 1]

\* first script, submit listener up to await fetch("/api/settings", ...)
submit1(st, filled, k) ==
  IF FsMissing(filled) THEN fsShowToast(st, "Please fill in host, port and API key", "error")
  ELSE [st EXCEPT !.disabled = @ \cup {"addBtn"},
                  !.addText = SAVING_LABEL,
                  !.submits = @ \cup {[sid |-> k, mod |-> 1, stage |-> "fetch",
                                       original |-> st.addText]}]

\* second script, submit listener up to await fetch("/api/settings", ...)
submit2(st, filled, k) ==
  IF FsMissing(filled) THEN fsShowToast(st, "Please fill in host, port and API key", "error")
  ELSE IF ~st.lastTestOk
  THEN fsShowToast(st,
         "Please test the connection and ensure it's successful before adding the server",
         "error")
  ELSE [st EXCEPT !.disabled = @ \cup FsControls,
                  !.addText = SAVING_LABEL,
                  !.submits = @ \cup {[sid |-> k, mod |-> 2, stage |-> "fetch",
                                       original |-> st.addText]}]

\* the submit listener h ends
SubmitEnds(st, h, outcome) ==
  [st EXCEPT !.submits = @ \ {h},
             !.done = [sid |-> h.sid, mod |-> h.mod, outcome |-> outcome,
                       toast |-> st.toast]]

\* await fetch(...) throws in the listener: nothing after it runs
saveRejected(st, h) ==
  [SubmitEnds(st, h, "rejected") EXCEPT !.done.toast = NoToast]

\* if (!resp.ok) { ... return; }
saveNotOk(st, h) ==
  LET shown == fsShowToast(st, "Failed to save settings", "error")
      back == [shown EXCEPT !.addText = h.original,
                            !.disabled = IF h.mod = 1 THEN @ \ {"addBtn"}
                                         ELSE @ \ FsControls]
  IN SubmitEnds(back, h, "not ok")

\* catch (err) { ... } of the try around resp.json(), and in the first
\* script the two statements after it
saveUnparsable(st, h) ==
  LET shown == fsShowToast(st, "Saved but failed to parse response", "error")
      back == [shown EXCEPT !.addText = h.original,
                            !.disabled = IF h.mod = 1 THEN @ \ {"addBtn"}
                                         ELSE @ \ FsControls]
  IN SubmitEnds(back, h, "unparsable")

\* first script: the try block after resp.json() resolved (displayServer
\* writes host, port and the masked key into serverDisplay; the page starts
\* to leave for "/"), then the two statements after the try
saved1(st, h) ==
  LET shown == fsShowToast(st, "Server added successfully", "success")
      moved == [shown EXCEPT !.view.noServerHidden = TRUE,
                             !.view.serverAddedHidden = FALSE,
                             !.view.serverDisplay = TRUE,
                             !.phase = "leaving",
                             !.addText = h.original,
                             !.disabled = @ \ {"addBtn"}]
  IN SubmitEnds(moved, h, "saved")

\* second script: the try block after resp.json() resolved (formHidden stands
\* for the placeholder, the form, the server box and the form grid, hidden
\* together); pollProgress is scheduled
saved2(st, h) ==
  LET shown == fsShowToast(st, "Server added successfully", "success")
      moved == [shown EXCEPT !.view.noServerHidden = TRUE,
                             !.view.formHidden = TRUE,
                             !.view.syncShown = TRUE,
                             !.poll = @ + 1]
  IN SubmitEnds(moved, h, "saved")

\* how a run of pollProgress ends: the sync is over, it goes on (within the
\* ten minutes or past them), or the request failed (within or past them)
PollOutcomes == {"synced", "syncing", "syncing late", "failed", "failed late"}

\* the rest of a run of pollProgress, once its requests are settled: it sets
\* a timer that leaves for "/", sets a timer for its next run, or (after a
\* failure past the ten minutes) leaves for "/" at once; the dash of the
\* last message is written "-"
pollProgress(st, outcome) ==
  CASE outcome = "synced" -> [st EXCEPT !.href = @ + 1]
    [] outcome = "syncing" -> [st EXCEPT !.poll = @ + 1]
    [] outcome = "syncing late" ->
         [fsShowToast(st,
            "Initial sync is taking longer than expected. You can continue to the app; background sync will finish automatically.",
            "error")
            EXCEPT !.href = @ + 1]
    [] outcome = "failed" -> [st EXCEPT !.poll = @ + 1]
    [] outcome = "failed late" ->
         [fsShowToast(st, "Unable to determine sync progress - continuing",
                      "error")
            EXCEPT !.phase = "leaving"]

\* the page is loaded and both scripts run: the second disables addBtn
FsOpen ==
  /\ fsPhase = "closed"
  /\ fsPhase' = "open"
  /\ fsDisabled' = fsDisabled \cup {"addBtn"}
  /\ UNCHANGED <<fsOthers, fsFilled, fsAddText, fsTestText, fsAria, lastTestOk,
                 testingConnection, fsToast, fsView, fsSubmits, fsTests,
                 fsTimers, fsPoll, fsHref, fsDone, fsNextSubmit, fsNextTest, fsPolls, fsRuns>>

\* scripts run while the page is loaded, also while it is leaving for "/"
FsLive == fsPhase \in {"open", "leaving"}

\* the user can reach the form's controls
FsUsable == fsPhase = "open" /\ ~fsView.formHidden

\* the user types into the host, port or key input: the input listener of
\* the second script
FsInput ==
  \E f \in FsFields, nonEmpty \in BOOLEAN :
    /\ FsUsable
    /\ FsInputOf(f) \notin fsDisabled
    /\ fsFilled' = IF nonEmpty THEN fsFilled \cup {f} ELSE fsFilled \ {f}
    /\ lastTestOk' = FALSE
    /\ fsDisabled' = fsDisabled \cup {"addBtn"}
    /\ fsAria' = TRUE
    /\ UNCHANGED <<fsOthers, fsPhase, fsAddText, fsTestText, testingConnection,
                   fsToast, fsView, fsSubmits, fsTests, fsTimers, fsPoll, fsHref, fsDone,
                   fsNextSubmit, fsNextTest, fsPolls, fsRuns>>

\* a click on testBtn: the click listeners of both scripts, in order
FsTestClick ==
  /\ FsUsable
  /\ "testBtn" \notin fsDisabled
  /\ fsNextTest < MaxTests
  /\ fsNextTest' = fsNextTest + 1
  /\ WriteFs(testClick2(testClick1(FsDom, fsFilled, fsNextTest + 1),
                        fsFilled, fsNextTest + 1))
  /\ UNCHANGED <<fsOthers, fsFilled, fsNextSubmit, fsPolls, fsRuns>>

\* postJson of a click listener resolves
FsTestDone ==
  \E t \in fsTests, res \in TestResults :
    /\ FsLive
    /\ WriteFs(IF t.mod = 1 THEN testDone1(FsDom, t, res)
               ELSE testDone2(FsDom, t, res))
    /\ UNCHANGED <<fsOthers, fsFilled, fsNextSubmit, fsNextTest, fsPolls, fsRuns>>

\* setTimeout(() => (testBtn.disabled = false), ...)
FsTestTimer ==
  /\ FsLive
  /\ fsTimers > 0
  /\ fsTimers' = fsTimers - 1
  /\ fsDisabled' = fsDisabled \ {"testBtn"}
  /\ UNCHANGED <<fsOthers, fsPhase, fsFilled, fsAddText, fsTestText, fsAria,
                 lastTestOk, testingConnection, fsToast, fsView, fsSubmits,
                 fsTests, fsPoll, fsHref, fsDone, fsNextSubmit, fsNextTest, fsPolls, fsRuns>>

\* the form is submitted through addBtn: the submit listeners of both
\* scripts, in order
FsSubmit ==
  /\ FsUsable
  /\ "addBtn" \notin fsDisabled
  /\ fsNextSubmit < MaxSubmits
  /\ fsNextSubmit' = fsNextSubmit + 1
  /\ WriteFs(submit2(submit1(FsDom, fsFilled, fsNextSubmit + 1),
                     fsFilled, fsNextSubmit + 1))
  /\ UNCHANGED <<fsOthers, fsFilled, fsNextTest, fsPolls, fsRuns>>

\* the PUT of a submit listener rejects: a network failure
FsSaveRejected ==
  \E h \in fsSubmits :
    /\ FsLive
    /\ h.stage = "fetch"
    /\ WriteFs(saveRejected(FsDom, h))
    /\ UNCHANGED <<fsOthers, fsFilled, fsNextSubmit, fsNextTest, fsPolls, fsRuns>>

\* the PUT is answered with a non-OK status
FsSaveNotOk ==
  \E h \in fsSubmits :
    /\ FsLive
    /\ h.stage = "fetch"
    /\ WriteFs(saveNotOk(FsDom, h))
    /\ UNCHANGED <<fsOthers, fsFilled, fsNextSubmit, fsNextTest, fsPolls, fsRuns>>

\* the PUT is answered with an OK status: the listener awaits resp.json()
FsSaveOk ==
  \E h \in fsSubmits :
    /\ FsLive
    /\ h.stage = "fetch"
    /\ fsSubmits' = (fsSubmits \ {h}) \cup {[h EXCEPT !.stage = "json"]}
    /\ UNCHANGED <<fsOthers, fsPhase, fsFilled, fsDisabled, fsAddText,
                   fsTestText, fsAria, lastTestOk, testingConnection, fsToast,
                   fsView, fsTests, fsTimers, fsPoll, fsHref, fsDone, fsNextSubmit,
                   fsNextTest, fsPolls, fsRuns>>

\* resp.json() rejects: the response is not JSON
FsSaveUnparsable ==
  \E h \in fsSubmits :
    /\ FsLive
    /\ h.stage = "json"
    /\ WriteFs(saveUnparsable(FsDom, h))
    /\ UNCHANGED <<fsOthers, fsFilled, fsNextSubmit, fsNextTest, fsPolls, fsRuns>>

\* resp.json() resolves
FsSaved ==
  \E h \in fsSubmits :
    /\ FsLive
    /\ h.stage = "json"
    /\ WriteFs(IF h.mod = 1 THEN saved1(FsDom, h) ELSE saved2(FsDom, h))
    /\ UNCHANGED <<fsOthers, fsFilled, fsNextSubmit, fsNextTest, fsPolls, fsRuns>>

\* a pollProgress timer fires: the run sends its request and waits for it
FsPoll ==
  /\ FsLive
  /\ fsPoll > 0
  /\ fsPolls < MaxPolls
  /\ fsPoll' = fsPoll - 1
  /\ fsPolls' = fsPolls + 1
  /\ fsRuns' = [fsRuns EXCEPT !.fetch = @ + 1]
  /\ UNCHANGED <<fsOthers, fsPhase, fsFilled, fsDisabled, fsAddText, fsTestText, fsAria,
                 lastTestOk, testingConnection, fsToast, fsView, fsSubmits, fsTests,
                 fsTimers, fsHref, fsDone, fsNextSubmit, fsNextTest>>

\* the request of a run is rejected, or answered with an error status: the
\* catch block runs, within the ten minutes or past them
FsPollFetchFailed ==
  \E outcome \in {"failed", "failed late"} :
    /\ FsLive
    /\ fsRuns.fetch > 0
    /\ fsRuns' = [fsRuns EXCEPT !.fetch = @ - 1]
    /\ WriteFs(pollProgress(FsDom, outcome))
    /\ UNCHANGED <<fsOthers, fsFilled, fsNextSubmit, fsNextTest, fsPolls>>

\* the request of a run is answered: the run waits for r.json()
FsPollResponded ==
  /\ FsLive
  /\ fsRuns.fetch > 0
  /\ fsRuns' = [fsRuns EXCEPT !.fetch = @ - 1, !.json = @ + 1]
  /\ UNCHANGED <<fsOthers, fsPhase, fsFilled, fsDisabled, fsAddText, fsTestText, fsAria,
                 lastTestOk, testingConnection, fsToast, fsView, fsSubmits, fsTests,
                 fsTimers, fsPoll, fsHref, fsDone, fsNextSubmit, fsNextTest, fsPolls>>

\* r.json() of a run is settled: the body is unreadable or not ok (the
\* failures), or it tells whether the sync goes on
FsPollAnswered ==
  \E outcome \in PollOutcomes :
    /\ FsLive
    /\ fsRuns.json > 0
    /\ fsRuns' = [fsRuns EXCEPT !.json = @ - 1]
    /\ WriteFs(pollProgress(FsDom, outcome))
    /\ UNCHANGED <<fsOthers, fsFilled, fsNextSubmit, fsNextTest, fsPolls>>

\* the callback of setTimeout(() => { window.location.href = "/"; }, ...)
FsHrefTimer ==
  /\ FsLive
  /\ fsHref > 0
  /\ fsHref' = fsHref - 1
  /\ fsPhase' = "leaving"
  /\ UNCHANGED <<fsOthers, fsFilled, fsDisabled, fsAddText, fsTestText, fsAria,
                 lastTestOk, testingConnection, fsToast, fsView, fsSubmits,
                 fsTests, fsTimers, fsPoll, fsDone, fsNextSubmit, fsNextTest,
                 fsPolls, fsRuns>>

\* the page is replaced by "/": its scripts stop
FsUnload ==
  /\ fsPhase = "leaving"
  /\ fsPhase' = "left"
  /\ UNCHANGED <<fsOthers, fsFilled, fsDisabled, fsAddText, fsTestText, fsAria,
                 lastTestOk, testingConnection, fsToast, fsView, fsSubmits,
                 fsTests, fsTimers, fsPoll, fsHref, fsDone, fsNextSubmit, fsNextTest,
                 fsPolls, fsRuns>>

FsInit ==
  /\ fsPhase = "closed"
  /\ fsFilled = {}
  /\ fsDisabled = {}
  /\ fsAddText = ADD_LABEL
  /\ fsTestText = "Test"
  /\ fsAria = FALSE
  /\ lastTestOk = FALSE
  /\ testingConnection = FALSE
  /\ fsToast = NoToast
  /\ fsView = [noServerHidden |-> FALSE, serverAddedHidden |-> TRUE,
               serverDisplay |-> FALSE, formHidden |-> FALSE,
               syncShown |-> FALSE]
  /\ fsSubmits = {}
  /\ fsTests = {}
  /\ fsTimers = 0
  /\ fsPoll = 0
  /\ fsHref = 0
  /\ fsDone = NoSubmitDone
  /\ fsNextSubmit = 0
  /\ fsNextTest = 0
  /\ fsPolls = 0
  /\ fsRuns = [fetch |-> 0, json |-> 0]

FsNext ==
  \/ FsOpen \/ FsInput \/ FsTestClick \/ FsTestDone \/ FsTestTimer \/ FsSubmit
  \/ FsSaveRejected \/ FsSaveNotOk \/ FsSaveOk \/ FsSaveUnparsable \/ FsSaved
  \/ FsPoll \/ FsPollFetchFailed \/ FsPollResponded \/ FsPollAnswered
  \/ FsHrefTimer \/ FsUnload

\* ------------------------------------------------------- specifications
vars == <<toastVars, actVars, setVars, asVars, hlpVars, fsVars>>

Init == ToastInit /\ ActInit /\ SetInit /\ AsInit /\ HlpInit /\ FsInit

ToastNext == ShowToast \/ UpdateToast \/ RemoveToast \/ ToastExpire

Next == ToastNext \/ ActNext \/ SetNext \/ AsNext \/ AsTestNext \/ HlpNext \/ FsNext

Spec == Init /\ [][Next]_vars

\* toast.js alone
ToastSpec == Init /\ [][ToastNext]_vars

\* activitylog.js alone
ActivitySpec == Init /\ [][ActNext]_vars

\* the settings page: tabs and server panel
SettingsSpec == Init /\ [][SetNext]_vars

\* the first-start page
FirstStartSpec == Init /\ [][FsNext]_vars

\* the request helpers alone
HelperSpec == Init /\ [][HlpNext]_vars

\* the autosaving settings page: its first script, which the test button's
\* script shares no state with but the toast container
AutosaveSpec == Init /\ [][AsNext]_vars

\* the autosaving settings page with both of its scripts
AutosavePageSpec == Init /\ [][AsNext \/ AsTestNext]_vars

\* time passes and the browser runs the callback of every timer that is due
AutosaveFairSpec ==
  /\ AutosaveSpec
  /\ WF_vars(Tick)
  /\ \A tid \in 1..MaxSaves : WF_vars(SaveTimerFire(tid))

\* the browser runs the callback of every timer that stays pending
ToastFairSpec ==
  ToastSpec /\ \A tid \in 1..MaxToasts : WF_vars(ToastTimerFire(tid))

\* ------------------------------------------------------ claims: toast.js
Range(f) == {f[x] : x \in DOMAIN f}

\* C1: the id a showToast call returns differs from the id every earlier
\* showToast call returned, whether or not that toast is still registered.
C1_ShowToastIdsUnique ==
  /\ \A i, j \in 1..Len(issued) : i # j => issued[i] # issued[j]
  /\ toastCall.op = "show" =>
       /\ Len(issued) > 0
       /\ toastCall.ret = issued[Len(issued)]
       /\ \A i \in 1..(Len(issued) - 1) : issued[i] # toastCall.ret

\* a second showToast has returned after the first toast was removed
C1_Witness ==
  /\ toastCall.op = "show"
  /\ Len(issued) >= 2
  /\ issued[1] \notin DOMAIN toasts

\* C2: removeToast(id) returns true exactly when id is registered; it then
\* takes the element off the page, deletes the entry and leaves no pending
\* timer for the toast; otherwise it returns false and changes neither the
\* registry nor any displayed toast.
C2_RemoveStep ==
  LET id == toastCall'.id
  IN toastCall'.op = "remove" =>
       /\ toastCall'.ret = (id \in DOMAIN toasts)
       /\ id \in DOMAIN toasts =>
            /\ toasts' = Restrict(toasts, DOMAIN toasts \ {id})
            /\ toasts[id].el \notin Range(toastDom')
            /\ toastDom' = RemoveAt(toastDom, toasts[id].el)
            /\ \A t \in toastTimers' : t.id # id /\ t.tid # toasts[id].timeoutId
            /\ \A t \in toastTimers : t.id # id => t \in toastTimers'
       /\ id \notin DOMAIN toasts =>
            /\ UNCHANGED <<toasts, toastDom, toastEls, toastTimers>>
            /\ toastCall'.ret = FALSE

C2_RemoveToastContract == [][C2_RemoveStep]_vars

\* removeToast has just returned true for the only toast, which had a timer:
\* the timer is cancelled and the page is empty
C2_Witness ==
  /\ toastCall.op = "remove"
  /\ toastCall.ret = TRUE
  /\ nextTimer = 1
  /\ Len(issued) = 1
  /\ toastTimers = {}
  /\ toastDom = << >>

\* C3: updateToast(id, ...) returns true iff id is registered; for an unknown
\* id nothing changes; for a registered id the registry keeps its entries and
\* every pending timer stays as it was.
C3_UpdateStep ==
  LET id == toastCall'.id
  IN toastCall'.op = "update" =>
       /\ toastCall'.ret = (id \in DOMAIN toasts)
       /\ UNCHANGED <<toasts, toastTimers, toastDom>>
       /\ id \notin DOMAIN toasts => UNCHANGED toastEls
       /\ \A e \in DOMAIN toastEls :
            (id \in DOMAIN toasts => e # toasts[id].el) =>
              e \in DOMAIN toastEls' /\ toastEls'[e] = toastEls[e]

C3_UpdateToastContract == [][C3_UpdateStep]_vars

\* updateToast has just returned false for an unknown id while a toast is shown
C3_Witness ==
  /\ toastCall.op = "update"
  /\ toastCall.ret = FALSE
  /\ toasts # << >>

\* the claim's own reading of a ttl: a number greater than 0
NumericPositive(ttl) == ttl.t = "number" /\ ttl.v > 0

\* a registered toast leaves the registry in this step
Leaves(id) == id \in DOMAIN toasts /\ id \notin DOMAIN toasts'

\* C4: a toast shown with a numeric ttl > 0 is eventually off the page and out
\* of the registry with no further call; a timer of a removed toast is never
\* pending, so it has no effect; a toast shown with any other ttl leaves the
\* registry only by a removeToast call for its id.
C4_TtlExpiry ==
  /\ \A id \in CallerIds :
       (id \in DOMAIN toasts /\ NumericPositive(shownTtl[id]))
         ~> (id \notin DOMAIN toasts)
  /\ [](\A t \in toastTimers :
          t.id \in DOMAIN toasts /\ toasts[t.id].timeoutId = t.tid)
  /\ [](Range(toastDom) = {toasts[i].el : i \in DOMAIN toasts})
  /\ [][\A id \in CallerIds :
          (Leaves(id) /\ ~NumericPositive(shownTtl[id]))
            => (toastCall'.op = "remove" /\ toastCall'.id = id)]_vars

\* a timed toast has expired by its timer while an untimed one is still shown
C4_Witness ==
  /\ toastCall.op = "timer"
  /\ toastCall.ret = TRUE
  /\ \E id \in DOMAIN toasts : ~NumericPositive(shownTtl[id])

\* ------------------------------------------------- claims: activitylog.js
\* arguments gotoPage may be given: numbers below, at and above 1, NaN, a
\* string that is no number, undefined, null
GotoArgSamples ==
  {JsNum(-2), JsNum(0), JsNum(1), JsNum(3), JsNaN, JsStr, JsUndef, JsNull}

\* the hash reads exactly "#page=<n>"
IsPageHash(h, n) == h = <<"#">> \o PagePrefix \o ToDigits(n)

\* C5: parseHashPage returns at least 1 for every hash, and 1 when the hash
\* holds no page=<digits>; gotoPage sets the hash to a page number of at least
\* 1 for every argument, to page=1 for a non-numeric, zero or negative one; so
\* Previous pressed on page 1 leaves the hash on page 1.
C5_PageAtLeastOne ==
  /\ parseHashPage(actHash) >= 1
  /\ requested >= 1
  /\ \A h \in HashSamples :
       /\ parseHashPage(h) >= 1
       /\ HashPageDigits(h) = << >> => parseHashPage(h) = 1
  /\ \A a \in GotoArgSamples :
       /\ gotoPageNumber(a) >= 1
       /\ IsPageHash(gotoPageHash(a), gotoPageNumber(a))
       /\ (a.t # "number" \/ a.v <= 0) => IsPageHash(gotoPageHash(a), 1)
  /\ actGoto.who # "none" =>
       \E n \in 1..Max(MaxPage, 20) : IsPageHash(actGoto.hash, n)
  /\ (actGoto.who = "prev" /\ actGoto.from = 1) => IsPageHash(actGoto.hash, 1)

\* Previous was pressed on page 1, gotoPage(0) ran and the hash reads page=1
C5_Witness ==
  /\ actGoto.who = "prev"
  /\ actGoto.from = 1
  /\ actGoto.arg = JsNum(0)
  /\ actHash = actGoto.hash
  /\ parseHashPage(actHash) = 1

\* C6: while a loadPage call is in flight, First, Previous, Next, Last and
\* every page-number button are disabled.
C6_NavDisabledWhileLoading ==
  loads # {} =>
    /\ nav = AllNav(TRUE)
    /\ \A i \in 1..Len(pageBtns) : pageBtns[i].disabled

\* C7: after loadPage finished rendering a non-empty page, First and Previous
\* are disabled when the page is <= 1, Next and Last when it is >= the total.
C7_EdgeButtonsDisabled ==
  (actLast.result = "rendered" /\ loads = {}) =>
    /\ actLast.page <= 1 => (nav.first /\ nav.prev)
    /\ actLast.page >= actLast.totalPages => (nav.next /\ nav.last)

\* --------------------------------------------------- claims: settings.js
VisiblePanels == {p \in PanelIds : ~panelHidden[p]}

\* C8: once the script has run, exactly one panel is visible and the tab
\* marked active (class, aria-selected, tabindex) is exactly the tab whose
\* href names it; with no hashchange pending, a hash naming no panel (or an
\* empty hash) shows 'general'.
C8_OnePanelOneTab ==
  setOpen =>
    /\ Cardinality(VisiblePanels) = 1
    /\ \A href \in TabHrefs :
         /\ tabs[href].active <=> (Slice1(href) \in VisiblePanels)
         /\ tabs[href] = TabAttrs(tabs[href].active)
    /\ (setHashEvents = 0 /\ Slice1(setHash) \notin PanelIds)
         => VisiblePanels = {S_general}

\* a hash naming no panel was dispatched and 'general' is shown
C8_Witness ==
  /\ setOpen
  /\ setHashEvents = 0
  /\ setHash = <<"#", "t", "a", "s", "k", "l", "o", "g", "2">>
  /\ VisiblePanels = {S_general}
  /\ tabs[<<"#">> \o S_general].active

\* C10: the text displayServer writes is the label, at most the first three
\* characters of the key and a fixed run of asterisks; keys that agree on
\* their first three characters give the same text.
C10_KeyRedacted ==
  /\ serverShown =>
       /\ serverKeyDisplay =
            ApiKeyLabel \o Substring0(shownKey, 3) \o Stars(STARS_AFTER_KEY)
       /\ \A k \in KeySamples :
            (k # << >> /\ Substring0(k, 3) = Substring0(shownKey, 3))
              => redactKey(k) = serverKeyDisplay
  /\ \A k \in KeySamples :
       LET text == redactKey(k)
           kept == Min(3, Len(k))
       IN /\ SubSeq(text, 1, Len(ApiKeyLabel)) = ApiKeyLabel
          /\ SubSeq(text, Len(ApiKeyLabel) + 1, Len(ApiKeyLabel) + kept)
               = SubSeq(k, 1, kept)
          /\ \A i \in (Len(ApiKeyLabel) + kept + 1)..Len(text) : text[i] = "*"
          /\ Len(text) - Len(ApiKeyLabel) - kept
               = IF k = << >> THEN STARS_NO_KEY ELSE STARS_AFTER_KEY

\* a key longer than three characters is on display
C10_Witness ==
  /\ serverShown
  /\ Len(shownKey) > 3
  /\ serverKeyDisplay = redactKey(shownKey)

\* ----------------------------------------------- claims: settings autosave
\* call j is the last call of its burst: no later call came within SAVE_DELAY
LastOfBurst(j) == j = Len(asCalls) \/ ~asCalls[j + 1].near

\* the calls of the burst that is still going on: the longest run of calls up
\* to the last one in which each came less than SAVE_DELAY ms after the one before
RECURSIVE BurstStart(_)
BurstStart(j) == IF j > 1 /\ asCalls[j].near THEN BurstStart(j - 1) ELSE j
CurrentBurst == IF asCalls = << >> THEN {} ELSE BurstStart(Len(asCalls))..Len(asCalls)

TimerPuts(S) == {i \in 1..Len(asPuts) : asPuts[i].call \in S}

C9_DebounceState ==
  /\ Cardinality(asTimers) <= 1
  /\ \A t \in asTimers : t.tid = saveTimer /\ t.call = Len(asCalls)
  /\ \A i \in 1..Len(asPuts) :
       asPuts[i].call # 0 =>
         /\ LastOfBurst(asPuts[i].call)
         /\ asPuts[i].body = asCalls[asPuts[i].call].payload
         /\ \A j \in 1..Len(asPuts) : asPuts[j].call = asPuts[i].call => j = i
  /\ asCalls # << >> =>
       IF asTimers # {} THEN TimerPuts(CurrentBurst) = {}
       ELSE /\ Cardinality(TimerPuts(CurrentBurst)) = 1
            /\ \A i \in TimerPuts(CurrentBurst) :
                 asPuts[i].body = asCalls[Len(asCalls)].payload

\* C9: at most one save timer is pending, a scheduleSave call cancels the
\* pending one, and of the calls of a burst (each less than 200 ms after the
\* one before) exactly one PUT is sent, with the payload of the last call:
\* none while the burst's timer is pending, one once it has run; every
\* pending timer is eventually cancelled or run.
C9_Debounce ==
  /\ []C9_DebounceState
  /\ \A tid \in 1..MaxSaves :
       (\E t \in asTimers : t.tid = tid) ~> ~(\E t \in asTimers : t.tid = tid)

\* a burst of two calls with different payloads has sent its one PUT
C9_Witness ==
  /\ Len(asCalls) >= 2
  /\ asCalls[Len(asCalls)].near
  /\ asCalls[Len(asCalls)].payload # asCalls[Len(asCalls) - 1].payload
  /\ asTimers = {}
  /\ Cardinality(TimerPuts(CurrentBurst)) = 1

\* C13: every loadPage call that fails (non-OK status, payload with ok false,
\* or a thrown error) or that gets no items ends in the empty state: the
\* table container is hidden, the empty notice shown, the page buttons are
\* removed, the page label reads 1 and lastKnownTotalPages is 1, so that Last
\* navigates to page 1; a failed call has also reported an error message.
\* lastKnownTotalPages is at least 1 in every reachable state.
C13_LoadEnds ==
  (loads' \subseteq loads /\ loads' # loads
   /\ actLast'.result \in {"failed", "empty"})
    => /\ actView'.containerHidden
       /\ ~actView'.emptyHidden
       /\ pageBtns' = << >>
       /\ actView'.pageNum = 1
       /\ actView'.meta = <<"Page", 1>>
       /\ lastKnownTotalPages' = 1
       /\ gotoPageHash(JsNum(lastKnownTotalPages')) = <<"#">> \o PagePrefix \o <<"1">>
       /\ actLast'.result = "failed" => actLast'.report # "none"

C13_FailedOrEmptyLoadEndsEmpty ==
  /\ [](lastKnownTotalPages >= 1)
  /\ [][C13_LoadEnds]_vars

\* the load of page 2 failed: the page shows the empty state with the label
\* 1, and a click on Last has then navigated to page 1
C13_Witness ==
  /\ actLast.result = "failed"
  /\ actLast.report # "none"
  /\ requested = 2
  /\ pageBtns = << >>
  /\ actView.pageNum = 1
  /\ loads = {}
  /\ actView.containerHidden
  /\ lastKnownTotalPages = 1
  /\ actGoto.who = "last"
  /\ actGoto.arg = JsNum(1)
  /\ actHash = <<"#">> \o PagePrefix \o <<"1">>

\* ---------------------------------------------- claims: request helpers
\* C11: the fetchJson and postJson helpers never reject: whatever the
\* request's outcome (network failure, body that is not JSON, non-OK status,
\* OK status), the promise of every finished call is resolved with an object,
\* and after a network failure or a non-OK status that object has ok = false
\* and data = null.
C11_HelpersResolveToObject ==
  \A cid \in DOMAIN hlpCalls :
    LET c == hlpCalls[cid]
    IN c.stage = "settled" =>
         /\ c.settle = "resolved"
         /\ c.value.t \in {"object", "array"}
         /\ (c.body = "no response" \/ (c.body # "none" /\ ~RespOk(c.status))) =>
              /\ "ok" \in c.value.has /\ c.value.ok = "false"
              /\ "data" \in c.value.has /\ c.value.data = "null"

\* ------------------------------------------------- claims: first_start.js
\* C12: whenever a submit listener ends and its save request did not succeed
\* (the fetch rejected, the status was not OK, or the response could not be
\* parsed), it has shown an error toast, and addBtn, testBtn and the host,
\* port and key inputs are enabled with addBtn's label back to what it was
\* before the form showed "Saving...".
C12_FailedSaveRestoresForm ==
  [][(fsDone' # fsDone /\ fsDone'.outcome \in {"rejected", "not ok", "unparsable"})
       => /\ fsDone'.toast.kind = "error"
          /\ fsDisabled' \cap FsControls = {}
          /\ fsAddText' = ADD_LABEL]_vars
====
